---- MODULE Spec2Model ----
(***************************************************************************)
(* Model of the model lifecycle of Tamivla AI Server:                      *)
(*   services/model_manager.py   (ModelManager: the resident map)          *)
(*   services/model_discovery.py (ModelDiscoveryService: path resolution,  *)
(*                                deletion and the scan of the cache)      *)
(*   services/quantization_service.py (the quantization planner)           *)
(*   api/routes/models.py        (the /models/unload route)                *)
(*   main.py                     (the lifespan teardown)                   *)
(*                                                                         *)
(* A Python string is a sequence of atoms.  The atoms are the separators   *)
(* "-" and "/", the word "models", the path component ".." and one-letter  *)
(* words, so that startswith, `in` and replace are computed on the text.   *)
(* A filesystem path is a sequence of components, each a string.           *)
(***************************************************************************)
EXTENDS Naturals, Sequences, FiniteSets, TLC

VARIABLES
    loaded_models,  \* ModelManager.loaded_models: normalized name -> entry
    cache,          \* the entries present under the cache root
    root_exists,    \* whether the cache root directory itself exists
    cuda,           \* torch.cuda.is_available()
    pc,             \* "running" while requests are served, "stopped" after teardown
    last,           \* the last call made and what it returned
    threads,        \* the concurrent callers of load_model and their positions
    scan,           \* a cache listing given to the Scanner and its result
    plan,           \* a request to the quantization planner and its answer
    batch           \* a list of texts handed to the batcher and its batches

vars == <<loaded_models, cache, root_exists, cuda, pc, last, threads, scan, plan,
          batch>>

-----------------------------------------------------------------------------
(* Bounds *)

\* largest number of resident entries the model lets load_model build up
MaxLoaded == 2

-----------------------------------------------------------------------------
(* Strings *)

ModelsPrefix == <<"models", "-", "-">>

DotDot == <<"..">>

\* str.startswith
StartsWith(s, p) == Len(s) >= Len(p) /\ SubSeq(s, 1, Len(p)) = p

\* the `in` operator on strings
Contains(s, p) ==
    \E i \in 1..(Len(s) + 1) :
        i + Len(p) - 1 <= Len(s) /\ SubSeq(s, i, i + Len(p) - 1) = p

\* str.replace('/', '--')
RECURSIVE ReplaceSlash(_)
ReplaceSlash(s) ==
    IF s = <<>> THEN <<>>
    ELSE IF Head(s) = "/" THEN <<"-", "-">> \o ReplaceSlash(Tail(s))
    ELSE <<Head(s)>> \o ReplaceSlash(Tail(s))

\* the names callers pass to the Manager and the Scanner
NameAB         == <<"a", "/", "b">>
NameModelsAB   == <<"models", "-", "-", "a", "-", "-", "b">>
NameModelsABSl == <<"models", "-", "-", "a", "-", "-", "b", "/">>
NameAModelsB   == <<"a", "/", "models", "-", "-", "b">>

Names == {NameAB, NameModelsAB, NameModelsABSl, NameAModelsB, DotDot}

\* the values of model_type: the two supported ones and an unsupported one
Kinds == {"embedding", "llm", "other"}

-----------------------------------------------------------------------------
(* Paths and the cache directory *)

\* Path(os.environ.get('HF_HOME', 'storage/models'))
models_cache == << <<"storage/models">> >>

NoPath == <<>>

\* the components of a relative path string, as pathlib keeps them: split at
\* "/", empty components (doubled or trailing separators) dropped
RECURSIVE SplitPath(_, _)
SplitPath(s, cur) ==
    IF s = <<>> THEN (IF cur = <<>> THEN <<>> ELSE <<cur>>)
    ELSE IF Head(s) = "/"
         THEN (IF cur = <<>> THEN <<>> ELSE <<cur>>) \o SplitPath(Tail(s), <<>>)
         ELSE SplitPath(Tail(s), Append(cur, Head(s)))

\* models_cache / name
JoinPath(root, s) == root \o SplitPath(s, <<>>)

\* The entries the cache directory can hold: directories directly under the
\* root.  What lies inside an entry is not modelled.
CacheUniverse ==
    { NameModelsAB, <<"models", "-", "-", "a", "-", "-", "models", "-", "-", "b">> }

\* The filesystem as the operations see it
FS(root, entries) == [root |-> root, entries |-> entries]

\* Where the components after the root lead.  inside = FALSE: the location is
\* above the cache root; ok = FALSE: some component does not exist.
RECURSIVE Walk(_, _, _)
Walk(parts, loc, fs) ==
    IF parts = <<>> \/ ~loc.ok THEN loc
    ELSE LET p == Head(parts) IN
         IF p = DotDot
         THEN IF ~loc.inside THEN Walk(Tail(parts), loc, fs)
              ELSE IF loc.rel = <<>>
                   THEN Walk(Tail(parts), [inside |-> FALSE, rel |-> <<>>, ok |-> TRUE], fs)
                   ELSE Walk(Tail(parts),
                             [loc EXCEPT !.rel = SubSeq(loc.rel, 1, Len(loc.rel) - 1)], fs)
         ELSE IF loc.inside /\ loc.rel = <<>> /\ p \in fs.entries
              THEN Walk(Tail(parts), [loc EXCEPT !.rel = <<p>>], fs)
              ELSE [loc EXCEPT !.ok = FALSE]

Locate(path, fs) ==
    Walk(SubSeq(path, Len(models_cache) + 1, Len(path)),
         [inside |-> TRUE, rel |-> <<>>, ok |-> fs.root], fs)

\* Path.exists()
Exists(path, fs) == Locate(path, fs).ok

\* the path names something below the cache root
UnderCacheRoot(path, fs) ==
    LET loc == Locate(path, fs) IN loc.ok /\ loc.inside /\ loc.rel # <<>>

-----------------------------------------------------------------------------
(* ModelManager *)

\* an entry of loaded_models; NoModel and NoEntry stand for Python's None
NoModel == [loader |-> "None", source |-> NoPath]

NoEntry == [type |-> "None", status |-> "None", model |-> NoModel,
            device |-> "None", local_path |-> NoPath]

\* _normalize_model_name without the rewriting branch
normalize_without_rewrite(model_name) == model_name

_normalize_model_name(model_name) ==
    IF StartsWith(model_name, ModelsPrefix) THEN model_name
    ELSE IF Contains(model_name, <<"/">>)
         THEN ModelsPrefix \o ReplaceSlash(model_name)
         ELSE model_name

\* _get_local_model_path without the exists() test
local_path_without_exists(model_name, fs) ==
    JoinPath(models_cache, _normalize_model_name(model_name))

\* ModelManager._get_local_model_path
_get_local_model_path(model_name, fs) ==
    LET path == JoinPath(models_cache, _normalize_model_name(model_name))
    IN  IF Exists(path, fs) THEN path ELSE NoPath

is_model_loaded(model_name, models) ==
    _normalize_model_name(model_name) \in DOMAIN models

get_model(model_name, models) ==
    LET normalized_name == _normalize_model_name(model_name)
    IN  IF normalized_name \in DOMAIN models
        THEN models[normalized_name].model
        ELSE NoModel

get_model_info(model_name, models) ==
    LET normalized_name == _normalize_model_name(model_name)
    IN  IF normalized_name \in DOMAIN models THEN models[normalized_name]
        ELSE NoEntry

list_loaded_models(models) == [name \in DOMAIN models |-> models[name].type]

get_model_stats(models) ==
    [total_loaded     |-> Cardinality(DOMAIN models),
     embedding_models |-> Cardinality({n \in DOMAIN models : models[n].type = "embedding"}),
     llm_models       |-> Cardinality({n \in DOMAIN models : models[n].type = "llm"}),
     models           |-> list_loaded_models(models)]

Device(gpu) == IF gpu THEN "cuda" ELSE "cpu"

\* the dict with one key set, and with one key popped
Put(models, key, entry) ==
    [n \in DOMAIN models \cup {key} |-> IF n = key THEN entry ELSE models[n]]

\* pop that drops every entry
PopEverything(models, key) == [n \in {} |-> models[n]]

Pop(models, key) == [n \in DOMAIN models \ {key} |-> models[n]]

\* The outcome of a call of load_model that registers nothing
Refused(models) ==
    [models |-> models, ret |-> FALSE, loader_arg |-> NoPath, raised |-> FALSE,
     fs_lookup |-> FALSE, env_written |-> FALSE]

\* the entry load_model registers, with the object the loader returned
NewEntry(model_type, local_path, gpu) ==
    [type |-> model_type,
     status |-> "loaded",
     model |-> [loader |-> IF model_type = "embedding"
                           THEN "SentenceTransformer" ELSE "pipeline",
                source |-> local_path],
     device |-> Device(gpu),
     local_path |-> local_path]

\* LoadFromCache registering the entry before the loader is called
LoadFromCacheRegisteringFirst(model_name, model_type, loader_raises, models, fs, gpu) ==
    LET normalized_name == _normalize_model_name(model_name)
        local_path == _get_local_model_path(model_name, fs)
        looked == [Refused(models) EXCEPT !.fs_lookup = TRUE]
        registered == Put(models, normalized_name,
                          NewEntry(model_type, local_path, gpu))
    IN  IF local_path = NoPath
        THEN looked
        ELSE IF model_type \notin {"embedding", "llm"}
        THEN [looked EXCEPT !.env_written = TRUE]
        ELSE [models |-> registered, ret |-> ~loader_raises,
              loader_arg |-> local_path, raised |-> loader_raises,
              fs_lookup |-> TRUE, env_written |-> TRUE]

\* load_model past the residency check: the existence check, the environment
\* variables, the dispatch on model_type, the loader call, the registration
LoadFromCache(model_name, model_type, loader_raises, models, fs, gpu) ==
    LET normalized_name == _normalize_model_name(model_name)
        local_path == _get_local_model_path(model_name, fs)
        looked == [Refused(models) EXCEPT !.fs_lookup = TRUE]
    IN  IF local_path = NoPath
        THEN looked
        ELSE IF model_type \notin {"embedding", "llm"}
        THEN [looked EXCEPT !.env_written = TRUE]
        ELSE IF loader_raises
        THEN [looked EXCEPT !.env_written = TRUE, !.loader_arg = local_path,
                            !.raised = TRUE]
        ELSE [models |-> Put(models, normalized_name,
                             NewEntry(model_type, local_path, gpu)),
              ret |-> TRUE, loader_arg |-> local_path, raised |-> FALSE,
              fs_lookup |-> TRUE, env_written |-> TRUE]

\* load_model that records the requested type on an entry already resident
load_model_retyping_resident(model_name, model_type, loader_raises, models, fs, gpu) ==
    LET normalized_name == _normalize_model_name(model_name)
    IN  IF normalized_name \in DOMAIN models
        THEN [Refused([models EXCEPT ![normalized_name].type = model_type])
                  EXCEPT !.ret = TRUE]
        ELSE LoadFromCache(model_name, model_type, loader_raises, models, fs, gpu)

\* load_model with the existence check ahead of the residency check
load_model_checking_cache_first(model_name, model_type, loader_raises, models, fs, gpu) ==
    IF _get_local_model_path(model_name, fs) = NoPath
    THEN [Refused(models) EXCEPT !.fs_lookup = TRUE]
    ELSE IF _normalize_model_name(model_name) \in DOMAIN models
    THEN [Refused(models) EXCEPT !.ret = TRUE, !.fs_lookup = TRUE]
    ELSE LoadFromCache(model_name, model_type, loader_raises, models, fs, gpu)

\* load_model without the residency check
load_model_always_loading(model_name, model_type, loader_raises, models, fs, gpu) ==
    LoadFromCache(model_name, model_type, loader_raises, models, fs, gpu)

\* What one call of load_model does.  loader_raises is whether the
\* third-party loader raises if it is called.  The result carries the new
\* resident map, the return value, the path handed to the loader (NoPath when
\* it is not called), whether the loader raised, and whether the filesystem
\* was consulted and os.environ written.
load_model(model_name, model_type, loader_raises, models, fs, gpu) ==
    IF _normalize_model_name(model_name) \in DOMAIN models
    THEN [Refused(models) EXCEPT !.ret = TRUE]
    ELSE LoadFromCache(model_name, model_type, loader_raises, models, fs, gpu)

\* unload_model that reports success and leaves the entry in the map
unload_model_keeping_entry(model_name, release_raises, models, gpu) ==
    [models |-> models,
     ret |-> _normalize_model_name(model_name) \in DOMAIN models]

\* unload_model that reports success for a name that is not resident
unload_model_succeeding_when_absent(model_name, release_raises, models, gpu) ==
    LET normalized_name == _normalize_model_name(model_name)
    IN  IF normalized_name \notin DOMAIN models
        THEN [models |-> models, ret |-> TRUE]
        ELSE [models |-> Pop(models, normalized_name),
              ret |-> ~(gpu /\ release_raises)]

\* What one call of unload_model does.  release_raises is whether
\* torch.cuda.empty_cache() raises; it is only called when CUDA is available,
\* after the entry has been popped.
unload_model(model_name, release_raises, models, gpu) ==
    LET normalized_name == _normalize_model_name(model_name)
    IN  IF normalized_name \notin DOMAIN models
        THEN [models |-> models, ret |-> FALSE]
        ELSE [models |-> Pop(models, normalized_name),
              ret |-> ~(gpu /\ release_raises)]

\* the teardown loop leaving after its first unload_model
ShutdownLoopOnce(keys, st, gpu) ==
    IF keys = {} THEN st
    ELSE LET model_name == CHOOSE k \in keys : TRUE
         IN  [models |-> unload_model(model_name, FALSE, st.models, gpu).models,
              called |-> st.called \cup {model_name}]

\* The teardown loop of lifespan: unload_model for every key of a snapshot of
\* the resident map.  keys is the set of keys still to visit, st the resident
\* map and the names unload_model has been called with.  The value
\* unload_model returns is dropped, and the map it leaves does not depend on
\* whether empty_cache raises, nor on the order of the visits.
RECURSIVE ShutdownLoop(_, _, _)
ShutdownLoop(keys, st, gpu) ==
    IF keys = {} THEN st
    ELSE LET model_name == CHOOSE k \in keys : TRUE
         IN  ShutdownLoop(keys \ {model_name},
                          [models |-> unload_model(model_name, FALSE, st.models, gpu).models,
                           called |-> st.called \cup {model_name}],
                          gpu)

-----------------------------------------------------------------------------
(* ModelDiscoveryService *)

\* Path.suffix of the last component, for the extensions the model knows
Suffix(path) ==
    IF path = <<>> \/ path[Len(path)] = <<>> THEN ""
    ELSE LET c == path[Len(path)] IN
         IF c[Len(c)] \in {".gguf"} /\ Len(c) > 1 THEN c[Len(c)] ELSE ""

\* Path.is_file(): in the modelled cache the entries named *.gguf are files,
\* every other entry is a directory
IsFile(path, fs) ==
    LET loc == Locate(path, fs)
    IN  loc.ok /\ loc.inside /\ Len(loc.rel) = 1 /\ Suffix(loc.rel) = ".gguf"

FirstExisting(paths, fs) ==
    IF \E i \in 1..Len(paths) : Exists(paths[i], fs)
    THEN paths[CHOOSE i \in 1..Len(paths) :
                  /\ Exists(paths[i], fs)
                  /\ \A j \in 1..(i - 1) : ~Exists(paths[j], fs)]
    ELSE NoPath

\* ModelDiscoveryService._get_local_model_path
Discovery_get_local_model_path(model_name, fs) ==
    LET gguf_path == JoinPath(models_cache, model_name)
        candidates ==
            IF Contains(model_name, ModelsPrefix)
            THEN <<JoinPath(models_cache, model_name)>>
            ELSE <<JoinPath(models_cache, ModelsPrefix \o ReplaceSlash(model_name)),
                   JoinPath(models_cache, model_name)>>
    IN  IF Exists(gguf_path, fs) /\ IsFile(gguf_path, fs) /\ Suffix(gguf_path) = ".gguf"
        THEN gguf_path
        ELSE FirstExisting(candidates, fs)

\* delete_model that reports the removal and removes nothing
delete_model_reporting_only(model_name, fs) ==
    [fs |-> fs, ret |-> Discovery_get_local_model_path(model_name, fs) # NoPath]

\* What one call of delete_model does.  A resolved path that names an entry
\* of the cache is removed (unlink or rmtree).  A resolved path that leads to
\* the cache root or above it makes rmtree remove everything below that
\* directory, the cache root included, and then raise when it removes the
\* directory itself, which delete_model turns into False.
delete_model(model_name, fs) ==
    LET local_path == Discovery_get_local_model_path(model_name, fs)
        loc == Locate(local_path, fs)
    IN  IF local_path = NoPath \/ ~Exists(local_path, fs)
        THEN [fs |-> fs, ret |-> FALSE]
        ELSE IF loc.inside /\ Len(loc.rel) = 1
        THEN [fs |-> FS(fs.root, fs.entries \ {loc.rel[1]}), ret |-> TRUE]
        ELSE [fs |-> FS(FALSE, {}), ret |-> FALSE]

-----------------------------------------------------------------------------
(* The /models/unload route *)

\* unload_model_from_memory: the status of the answer for what the Manager
\* returned
UnloadStatus(success) == IF success THEN "success" ELSE "warning"

-----------------------------------------------------------------------------
(* The state machine *)

EmptyMap == [n \in {} |-> NoEntry]

\* the record of the last call
Idle == [op |-> "none", name |-> <<>>, kind |-> "", ret |-> FALSE,
         loader_arg |-> NoPath, raised |-> FALSE, fs_lookup |-> FALSE,
         env_written |-> FALSE, model |-> NoModel, info |-> NoEntry, status |-> "", unloaded |-> {}]

\* no concurrent caller, no scan made, no planner request made, no texts to batch
NoThreads == <<>>
NoScan == [listing |-> <<>>, done |-> FALSE]
NoPlan == [done |-> FALSE]
NoBatch == [done |-> FALSE]

Init ==
    /\ loaded_models = EmptyMap
    /\ cache \in SUBSET CacheUniverse
    /\ root_exists = TRUE
    /\ cuda \in BOOLEAN
    /\ pc = "running"
    /\ last = Idle
    /\ threads = NoThreads
    /\ scan = NoScan
    /\ plan = NoPlan
    /\ batch = NoBatch

LoadModel(n, k, raises) ==
    \E r \in {load_model(n, k, raises, loaded_models, FS(root_exists, cache), cuda)} :
    /\ pc = "running"
    /\ Cardinality(DOMAIN r.models) <= MaxLoaded
    /\ loaded_models' = r.models
    /\ last' = [Idle EXCEPT !.op = "load_model", !.name = n, !.kind = k,
                            !.ret = r.ret, !.loader_arg = r.loader_arg,
                            !.raised = r.raised,
                            !.fs_lookup = r.fs_lookup,
                            !.env_written = r.env_written]
    /\ UNCHANGED <<cache, root_exists, cuda, pc, threads, scan, plan, batch>>

\* POST /models/unload
UnloadRoute(n, raises) ==
    \E r \in {unload_model(n, raises, loaded_models, cuda)} :
    /\ pc = "running"
    /\ loaded_models' = r.models
    /\ last' = [Idle EXCEPT !.op = "unload_route", !.name = n, !.ret = r.ret,
                            !.status = UnloadStatus(r.ret)]
    /\ UNCHANGED <<cache, root_exists, cuda, pc, threads, scan, plan, batch>>

IsModelLoaded(n) ==
    /\ pc = "running"
    /\ last' = [Idle EXCEPT !.op = "is_model_loaded", !.name = n,
                            !.ret = is_model_loaded(n, loaded_models)]
    /\ UNCHANGED <<loaded_models, cache, root_exists, cuda, pc, threads, scan, plan, batch>>

GetModel(n) ==
    /\ pc = "running"
    /\ last' = [Idle EXCEPT !.op = "get_model", !.name = n,
                            !.model = get_model(n, loaded_models)]
    /\ UNCHANGED <<loaded_models, cache, root_exists, cuda, pc, threads, scan, plan, batch>>

GetModelInfo(n) ==
    /\ pc = "running"
    /\ last' = [Idle EXCEPT !.op = "get_model_info", !.name = n,
                            !.info = get_model_info(n, loaded_models)]
    /\ UNCHANGED <<loaded_models, cache, root_exists, cuda, pc, threads, scan, plan, batch>>

\* GET /models/loaded: list_loaded_models and get_model_stats
GetLoadedModels ==
    /\ pc = "running"
    /\ last' = [Idle EXCEPT !.op = "get_loaded_models",
                            !.ret = (get_model_stats(loaded_models).models
                                        = list_loaded_models(loaded_models))]
    /\ UNCHANGED <<loaded_models, cache, root_exists, cuda, pc, threads, scan, plan, batch>>

DeleteModel(n) ==
    \E r \in {delete_model(n, FS(root_exists, cache))} :
    /\ pc = "running"
    /\ cache' = r.fs.entries
    /\ root_exists' = r.fs.root
    /\ last' = [Idle EXCEPT !.op = "delete_model", !.name = n, !.ret = r.ret]
    /\ UNCHANGED <<loaded_models, cuda, pc, threads, scan, plan, batch>>

\* the teardown of lifespan, after the server has stopped serving
Shutdown ==
    \E r \in {ShutdownLoop(DOMAIN loaded_models,
                           [models |-> loaded_models, called |-> {}], cuda)} :
    /\ pc = "running"
    /\ pc' = "stopped"
    /\ loaded_models' = r.models
    /\ last' = [Idle EXCEPT !.op = "shutdown", !.unloaded = r.called]
    /\ UNCHANGED <<cache, root_exists, cuda, threads, scan, plan, batch>>

Next ==
    \/ \E n \in Names, k \in Kinds, raises \in BOOLEAN : LoadModel(n, k, raises)
    \/ \E n \in Names, raises \in BOOLEAN : UnloadRoute(n, raises)
    \/ \E n \in Names : IsModelLoaded(n)
    \/ \E n \in Names : GetModel(n)
    \/ \E n \in Names : GetModelInfo(n)
    \/ GetLoadedModels
    \/ \E n \in Names : DeleteModel(n)
    \/ Shutdown

Spec == Init /\ [][Next]_vars

-----------------------------------------------------------------------------
(* Properties *)

fs_now == FS(root_exists, cache)

\* the names of the form org/model, and their form models--org--model
OrgModelNames ==
    {n \in Names : ~StartsWith(n, ModelsPrefix) /\ Contains(n, <<"/">>)}

CanonicalForm(n) == ModelsPrefix \o ReplaceSlash(n)

\* the directory the Manager looks for: the cache root joined with the
\* normalized name
ManagerPath(n) == JoinPath(models_cache, _normalize_model_name(n))

\* C1: when load_model has just loaded a name (the loader was called and the
\* call returned True), the entry is resident under the normalized name, and a
\* second load_model with the same arguments returns True, does not call the
\* loader and leaves the resident map as it is, with that one entry.
C1_IdempotentLoad ==
    [][ /\ (last'.op = "load_model" /\ last'.loader_arg # NoPath /\ ~last'.raised)
            => /\ last'.ret
               /\ _normalize_model_name(last'.name) \in DOMAIN loaded_models'
        /\ (/\ last.op = "load_model" /\ last.ret /\ last.loader_arg # NoPath
            /\ last'.op = "load_model"
            /\ last'.name = last.name /\ last'.kind = last.kind)
            => /\ last'.ret
               /\ last'.loader_arg = NoPath
               /\ loaded_models' = loaded_models
               /\ _normalize_model_name(last.name) \in DOMAIN loaded_models'
      ]_vars

C1_Witness ==
    /\ last.op = "load_model" /\ last.ret /\ last.loader_arg = NoPath
    /\ is_model_loaded(last.name, loaded_models)
    /\ loaded_models[_normalize_model_name(last.name)].type = last.kind

C3_UnloadClears ==
    [][ /\ (last'.op = "unload_route" /\ last'.ret)
            => \A n \in Names :
                  _normalize_model_name(n) = _normalize_model_name(last'.name)
                  => /\ ~is_model_loaded(n, loaded_models')
                     /\ get_model(n, loaded_models') = NoModel
        /\ \A n \in Names :
              (~is_model_loaded(n, loaded_models) /\ is_model_loaded(n, loaded_models'))
              => /\ last'.op = "load_model" /\ last'.ret
                 /\ _normalize_model_name(last'.name) = _normalize_model_name(n)
      ]_vars

C3_Witness ==
    /\ last.op = "unload_route" /\ last.ret
    /\ last.name = NameAB
    /\ ~is_model_loaded(NameModelsAB, loaded_models)
    /\ Cardinality(DOMAIN loaded_models) > 0

\* C4 as stated: the two forms of a name address one slot, and no two entries
\* of the resident map are the same model (the same local_path).
C4_OneEntryPerModel ==
    /\ \A n \in OrgModelNames :
          /\ is_model_loaded(n, loaded_models)
                = is_model_loaded(CanonicalForm(n), loaded_models)
          /\ get_model(n, loaded_models) = get_model(CanonicalForm(n), loaded_models)
    /\ \A k1, k2 \in DOMAIN loaded_models :
          loaded_models[k1].local_path = loaded_models[k2].local_path => k1 = k2

\* C4 amended: the forms org/model and models--org--model address one slot:
\* is_model_loaded, get_model, get_model_info, unload_model and load_model
\* give the same under either form, every key of the resident map is a
\* normalized name, and the form org/model is never a key.
C4_TwoFormsOneSlot ==
    /\ \A n \in OrgModelNames :
          LET c == CanonicalForm(n) IN
          /\ is_model_loaded(n, loaded_models) = is_model_loaded(c, loaded_models)
          /\ get_model(n, loaded_models) = get_model(c, loaded_models)
          /\ get_model_info(n, loaded_models) = get_model_info(c, loaded_models)
          /\ unload_model(n, FALSE, loaded_models, cuda)
                = unload_model(c, FALSE, loaded_models, cuda)
          /\ \A k \in Kinds, raises \in BOOLEAN :
                load_model(n, k, raises, loaded_models, fs_now, cuda)
                    = load_model(c, k, raises, loaded_models, fs_now, cuda)
          /\ n \notin DOMAIN loaded_models
    /\ \A k \in DOMAIN loaded_models : _normalize_model_name(k) = k

C4_Witness ==
    /\ last.op = "load_model" /\ last.ret /\ last.loader_arg # NoPath
    /\ last.name \in OrgModelNames
    /\ is_model_loaded(CanonicalForm(last.name), loaded_models)
    /\ get_model(CanonicalForm(last.name), loaded_models) # NoModel

\* C5 as stated: the loader is called only with the cache root joined with the
\* normalized name, a path that exists and lies under the cache root, and
\* every resident entry's local_path is the cache root joined with its key.
C5_LoaderPathUnderCacheRoot ==
    /\ (last.op = "load_model" /\ last.loader_arg # NoPath)
        => /\ last.loader_arg = ManagerPath(last.name)
           /\ Exists(last.loader_arg, fs_now)
           /\ UnderCacheRoot(last.loader_arg, fs_now)
    /\ \A k \in DOMAIN loaded_models :
          loaded_models[k].local_path = JoinPath(models_cache, k)

\* C6: when the loader raises, for either kind, load_model returns False and
\* the resident map is unchanged, with no entry for the normalized name.
C6_LoaderFailureLeavesNoEntry ==
    [][ (last'.op = "load_model" /\ last'.raised)
        => (/\ ~last'.ret
            /\ loaded_models' = loaded_models
            /\ _normalize_model_name(last'.name) \notin DOMAIN loaded_models') ]_vars

C6_Witness ==
    /\ last.op = "load_model" /\ last.raised /\ last.kind = "llm"
    /\ ~last.ret
    /\ ~is_model_loaded(last.name, loaded_models)

\* C7 as stated: a load_model with an unsupported model_type returns False
\* and has neither consulted the filesystem, nor written os.environ, nor
\* called the loader.
C7_UnsupportedKindRejectedFirst ==
    (last.op = "load_model" /\ last.kind \notin {"embedding", "llm"})
    => (/\ ~last.ret
        /\ ~last.fs_lookup
        /\ ~last.env_written
        /\ last.loader_arg = NoPath)

\* C8: unload_model of a name whose normalized form is not resident returns
\* False and leaves the resident map unchanged, and /models/unload answers
\* with status "warning".
C8_UnloadAbsentIsWarning ==
    [][ (/\ last'.op = "unload_route"
         /\ _normalize_model_name(last'.name) \notin DOMAIN loaded_models)
        => (/\ ~last'.ret
            /\ loaded_models' = loaded_models
            /\ last'.status = "warning") ]_vars

C8_Witness ==
    /\ last.op = "unload_route" /\ ~last.ret /\ last.status = "warning"
    /\ ~cuda
    /\ Cardinality(DOMAIN loaded_models) > 0

\* C9: a normalized name becomes resident only by a load_model of that name
\* that returns True, stops being resident only by an unload_model of that
\* name, its entry is otherwise unchanged by every operation, and every entry
\* has status 'loaded'.
C9_ResidencyFrame ==
    [][ \A k \in {_normalize_model_name(n) : n \in Names} :
          /\ (k \notin DOMAIN loaded_models /\ k \in DOMAIN loaded_models')
              => /\ last'.op = "load_model" /\ last'.ret
                 /\ _normalize_model_name(last'.name) = k
          /\ (k \in DOMAIN loaded_models /\ k \notin DOMAIN loaded_models')
              => \/ /\ last'.op = "unload_route"
                    /\ _normalize_model_name(last'.name) = k
                 \/ /\ last'.op = "shutdown"
                    /\ k \in last'.unloaded
          /\ (k \in DOMAIN loaded_models /\ k \in DOMAIN loaded_models')
              => loaded_models'[k] = loaded_models[k]
          /\ k \in DOMAIN loaded_models' => loaded_models'[k].status = "loaded"
      ]_vars

C9_Witness ==
    /\ last.op = "unload_route" /\ last.ret
    /\ Cardinality(DOMAIN loaded_models) > 0
    /\ ~is_model_loaded(last.name, loaded_models)

\* C10: the teardown calls unload_model for every name resident when it
\* starts, and leaves the resident map empty.
C10_ShutdownUnloadsAll ==
    [][ pc' = "stopped"
        => (/\ last'.unloaded = DOMAIN loaded_models
            /\ DOMAIN loaded_models' = {}) ]_vars

C10_Witness ==
    /\ pc = "stopped"
    /\ Cardinality(last.unloaded) >= 2
    /\ DOMAIN loaded_models = {}

-----------------------------------------------------------------------------
(* Concurrent callers of ModelManager.load_model *)

\* load_model takes no lock: between the residency check, the existence
\* check, the loader call and the write into loaded_models another caller
\* can run.  Each caller goes through the steps of one call of load_model.
Callers == {"first", "second"}

NotCalling == [at |-> "idle", name |-> <<>>, kind |-> "", local_path |-> NoPath,
               called |-> FALSE, made |-> FALSE, ret |-> FALSE]

\* holder: for a key of loaded_models, the caller whose runtime handle the
\* entry holds
NoCallers == [call |-> [t \in Callers |-> NotCalling],
              holder |-> [n \in {} |-> ""]]

ConcInit ==
    /\ loaded_models = EmptyMap
    /\ cache \in SUBSET CacheUniverse
    /\ root_exists = TRUE
    /\ cuda \in BOOLEAN
    /\ pc = "running"
    /\ last = Idle
    /\ threads = NoCallers
    /\ scan = NoScan
    /\ plan = NoPlan
    /\ batch = NoBatch

\* a caller enters load_model(n, k)
CallLoadModel(t, n, k) ==
    /\ threads.call[t].at = "idle"
    /\ threads' = [threads EXCEPT !.call[t] =
                       [NotCalling EXCEPT !.at = "check", !.name = n, !.kind = k]]
    /\ UNCHANGED <<loaded_models, cache, root_exists, cuda, pc, last, scan, plan, batch>>

\* normalized_name in self.loaded_models
CheckResident(t) ==
    LET c == threads.call[t]
    IN  /\ c.at = "check"
        /\ threads' = [threads EXCEPT !.call[t] =
               IF is_model_loaded(c.name, loaded_models)
               THEN [c EXCEPT !.at = "returned", !.ret = TRUE]
               ELSE [c EXCEPT !.at = "resolve"]]
        /\ UNCHANGED <<loaded_models, cache, root_exists, cuda, pc, last, scan, plan, batch>>

\* local_path = self._get_local_model_path(model_name)
ResolvePath(t) ==
    LET c == threads.call[t]
    IN  \E local_path \in {_get_local_model_path(c.name, FS(root_exists, cache))} :
        /\ c.at = "resolve"
        /\ threads' = [threads EXCEPT !.call[t] =
               IF local_path = NoPath
               THEN [c EXCEPT !.at = "returned", !.ret = FALSE]
               ELSE [c EXCEPT !.at = "loader", !.local_path = local_path]]
        /\ UNCHANGED <<loaded_models, cache, root_exists, cuda, pc, last, scan, plan, batch>>

\* the dispatch on model_type and the call of the third-party loader
CallLoader(t, loader_raises) ==
    LET c == threads.call[t]
    IN  /\ c.at = "loader"
        /\ threads' = [threads EXCEPT !.call[t] =
               IF c.kind \notin {"embedding", "llm"}
               THEN [c EXCEPT !.at = "returned", !.ret = FALSE]
               ELSE IF loader_raises
               THEN [c EXCEPT !.at = "returned", !.ret = FALSE, !.called = TRUE]
               ELSE [c EXCEPT !.at = "write", !.called = TRUE, !.made = TRUE]]
        /\ UNCHANGED <<loaded_models, cache, root_exists, cuda, pc, last, scan, plan, batch>>

\* self.loaded_models[normalized_name] = {...}; return True
WriteEntry(t) ==
    LET c == threads.call[t]
        normalized_name == _normalize_model_name(c.name)
    IN  /\ c.at = "write"
        /\ loaded_models' = Put(loaded_models, normalized_name,
                                NewEntry(c.kind, c.local_path, cuda))
        /\ threads' = [call |-> [threads.call EXCEPT
                                     ![t] = [c EXCEPT !.at = "returned", !.ret = TRUE]],
                       holder |-> [n \in DOMAIN threads.holder \cup {normalized_name} |->
                                     IF n = normalized_name THEN t
                                     ELSE threads.holder[n]]]
        /\ UNCHANGED <<cache, root_exists, cuda, pc, last, scan, plan, batch>>

ConcNext ==
    \/ \E t \in Callers, n \in Names, k \in Kinds : CallLoadModel(t, n, k)
    \/ \E t \in Callers : CheckResident(t)
    \/ \E t \in Callers : ResolvePath(t)
    \/ \E t \in Callers, loader_raises \in BOOLEAN : CallLoader(t, loader_raises)
    \/ \E t \in Callers : WriteEntry(t)

ConcSpec == ConcInit /\ [][ConcNext]_vars

\* the handle a caller's loader call made is the one the resident map holds
HandleResident(t) ==
    LET normalized_name == _normalize_model_name(threads.call[t].name)
    IN  /\ normalized_name \in DOMAIN loaded_models
        /\ normalized_name \in DOMAIN threads.holder
        /\ threads.holder[normalized_name] = t

\* C11: of two concurrent load_model calls for the same normalized name, at
\* most one calls the loader; when one of them has made a handle and both
\* have returned, both have returned True; and every handle made by a call
\* that has returned is the one held in the resident map.
C11_LoaderRunsOnce ==
    \A t \in Callers : \A u \in Callers \ {t} :
        (/\ threads.call[t].at # "idle" /\ threads.call[u].at # "idle"
         /\ _normalize_model_name(threads.call[t].name)
                = _normalize_model_name(threads.call[u].name))
        => /\ ~(threads.call[t].called /\ threads.call[u].called)
           /\ (/\ threads.call[t].made
               /\ threads.call[t].at = "returned" /\ threads.call[u].at = "returned")
               => (/\ threads.call[t].ret /\ threads.call[u].ret
                   /\ HandleResident(t))

-----------------------------------------------------------------------------
(* ModelDiscoveryService.scan_models_cache *)

\* largest number of entries under the cache root in a scan
MaxEntries == 3

\* below this size in MB a directory is not usable
MinUsableMb == 1

\* The atoms of names in the order of their text (no atom is the beginning of
\* another, so comparing names atom by atom is comparing their text).
AtomOrder == <<"-", "..", ".bin", ".gguf", ".index", ".json", ".safetensors",
               "/", "_sentence_transformers", "a", "b", "config", "e5", "embed",
               "models", "modules", "pytorch_model", "qwen", "tokenizer",
               "vocab">>

AtomRank(a) == CHOOSE i \in 1..Len(AtomOrder) : AtomOrder[i] = a

\* s < t for Python strings
RECURSIVE StrLess(_, _)
StrLess(s, t) ==
    IF t = <<>> THEN FALSE
    ELSE IF s = <<>> THEN TRUE
    ELSE IF Head(s) = Head(t) THEN StrLess(Tail(s), Tail(t))
    ELSE AtomRank(Head(s)) < AtomRank(Head(t))

EndsWith(s, p) ==
    /\ Len(p) <= Len(s)
    /\ SubSeq(s, Len(s) - Len(p) + 1, Len(s)) = p

\* file names
ConfigJson == <<"config", ".json">>
StConfigJson == <<"config", "_sentence_transformers", ".json">>
ModulesJson == <<"modules", ".json">>
TokenizerJson == <<"tokenizer", ".json">>
Safetensors == <<"pytorch_model", ".safetensors">>
PytorchBin == <<"pytorch_model", ".bin">>
VocabJson == <<"vocab", ".json">>
\* the index of a sharded checkpoint: it names the weight files, it holds none
SafetensorsIndex == <<"pytorch_model", ".safetensors", ".index", ".json">>

\* a file somewhere in a directory: its name, and whether it lies in a
\* subdirectory rather than directly inside
File(name, nested) == [name |-> name, nested |-> nested]

\* what config.json holds: whether it parses, and which family its
\* architectures and its model_type name ("none": neither list matches,
\* "both": a name of each list occurs)
Config(ok, architectures, model_type) ==
    [ok |-> ok, architectures |-> architectures, model_type |-> model_type]

PlainConfig == Config(TRUE, "none", "none")

\* An entry of the cache root.  fault is what goes wrong when the entry is
\* read: "unsearchable" is a directory whose children cannot be stat'ed
\* (PermissionError), "vanishing" is a file that disappears while the entry
\* is analysed (FileNotFoundError from stat).
Entry(name, is_dir, files, size_mb, config, fault) ==
    [name |-> name, is_dir |-> is_dir, files |-> files, size_mb |-> size_mb,
     config |-> config, fault |-> fault]

GoodEmbedding ==
    Entry(<<"models", "-", "-", "a", "-", "-", "e5">>, TRUE,
          {File(ConfigJson, FALSE), File(StConfigJson, FALSE), File(Safetensors, FALSE)},
          90, PlainConfig, "none")
GoodLlm ==
    Entry(<<"models", "-", "-", "a", "-", "-", "qwen">>, TRUE,
          {File(ConfigJson, FALSE), File(TokenizerJson, FALSE), File(Safetensors, FALSE)},
          3000, Config(TRUE, "llm", "none"), "none")
PrefixOnly ==
    Entry(<<"models", "-", "-", "b">>, TRUE,
          {File(ConfigJson, FALSE), File(PytorchBin, FALSE)},
          5, PlainConfig, "none")
NestedConfig ==
    Entry(NameModelsAB, TRUE,
          {File(ConfigJson, TRUE), File(Safetensors, TRUE)},
          90, PlainConfig, "none")
NoPrefix ==
    Entry(<<"a">>, TRUE,
          {File(ConfigJson, FALSE), File(Safetensors, FALSE)},
          90, PlainConfig, "none")
GgufLlm ==
    Entry(<<"a", ".gguf">>, FALSE, {}, 4000, PlainConfig, "none")
GgufEmbed ==
    Entry(<<"qwen", "-", "embed", ".gguf">>, FALSE, {}, 600, PlainConfig, "none")
PlainFile ==
    Entry(<<"b", ".json">>, FALSE, {}, 0, PlainConfig, "none")
Unsearchable ==
    Entry(<<"models", "-", "-", "a", "-", "-", "a">>, TRUE,
          {File(ConfigJson, FALSE), File(Safetensors, FALSE)},
          90, PlainConfig, "unsearchable")
Vanishing ==
    Entry(<<"models", "-", "-", "b", "-", "-", "a">>, TRUE,
          {File(ConfigJson, FALSE), File(Safetensors, FALSE)},
          90, PlainConfig, "vanishing")
Tiny ==
    Entry(<<"models", "-", "-", "b", "-", "-", "b">>, TRUE,
          {File(ConfigJson, FALSE), File(Safetensors, FALSE)},
          0, Config(TRUE, "embedding", "none"), "none")
CorruptConfig ==
    Entry(<<"models", "-", "-", "b", "-", "-", "e5">>, TRUE,
          {File(ConfigJson, FALSE), File(Safetensors, FALSE)},
          90, Config(FALSE, "llm", "llm"), "none")

ScanUniverse ==
    {GoodEmbedding, GoodLlm, PrefixOnly, NestedConfig, NoPrefix, GgufLlm,
     GgufEmbed, PlainFile, Unsearchable, Vanishing, Tiny, CorruptConfig}

\* item.suffix.lower() == '.gguf'
IsGguf(item) == EndsWith(item.name, <<".gguf">>)

HasDirect(model_dir, file_name) == File(file_name, FALSE) \in model_dir.files

\* the outcome of a step that can raise
Raised == [raised |-> TRUE, value |-> FALSE]
Returned(v) == [raised |-> FALSE, value |-> v]

\* _is_valid_model_directory that does not look for config.json
valid_directory_by_name_only(model_dir) ==
    Returned(StartsWith(model_dir.name, ModelsPrefix))

\* _is_valid_model_directory that does not look at the name
valid_directory_by_config_only(model_dir) ==
    IF model_dir.fault = "unsearchable" THEN Raised
    ELSE Returned(HasDirect(model_dir, ConfigJson))

\* the name test first; then exists() of config.json directly inside, which
\* raises PermissionError when the directory cannot be searched
_is_valid_model_directory(model_dir) ==
    IF ~StartsWith(model_dir.name, ModelsPrefix) THEN Returned(FALSE)
    ELSE IF model_dir.fault = "unsearchable" THEN Raised
    ELSE Returned(HasDirect(model_dir, ConfigJson))

\* the keywords of _detect_model_type and _analyze_gguf_file that are atoms
\* of the names used here
EmbeddingKeywords == {<<"e5">>}
LlmKeywords == {<<"qwen">>}
GgufEmbeddingKeywords == {<<"embed">>}

\* _detect_model_type with the tokenizer files ahead of config.json
detect_model_type_tokenizer_first(model_dir) ==
    IF HasDirect(model_dir, StConfigJson) THEN "embedding"
    ELSE IF HasDirect(model_dir, ModulesJson) THEN "embedding"
    ELSE IF \E f \in model_dir.files :
                /\ ~f.nested
                /\ (StartsWith(f.name, <<"tokenizer">>) \/ Contains(f.name, <<"vocab">>))
         THEN "llm"
    ELSE IF /\ HasDirect(model_dir, ConfigJson) /\ model_dir.config.ok
            /\ model_dir.config.architectures \in {"embedding", "both"} THEN "embedding"
    ELSE IF /\ HasDirect(model_dir, ConfigJson) /\ model_dir.config.ok
            /\ model_dir.config.architectures = "llm" THEN "llm"
    ELSE IF /\ HasDirect(model_dir, ConfigJson) /\ model_dir.config.ok
            /\ model_dir.config.model_type \in {"embedding", "both"} THEN "embedding"
    ELSE IF /\ HasDirect(model_dir, ConfigJson) /\ model_dir.config.ok
            /\ model_dir.config.model_type = "llm" THEN "llm"
    ELSE IF \E k \in EmbeddingKeywords : Contains(model_dir.name, k) THEN "embedding"
    ELSE IF \E k \in LlmKeywords : Contains(model_dir.name, k) THEN "llm"
    ELSE "unknown"

\* the four tiers of _detect_model_type; a config.json that does not parse is
\* logged and the next tier decides.  In config.json the architectures are
\* tested against the embedding list, then against the generative list, and
\* only then the model_type, in the same order.
_detect_model_type(model_dir) ==
    IF HasDirect(model_dir, StConfigJson) THEN "embedding"
    ELSE IF HasDirect(model_dir, ModulesJson) THEN "embedding"
    ELSE IF /\ HasDirect(model_dir, ConfigJson) /\ model_dir.config.ok
            /\ model_dir.config.architectures \in {"embedding", "both"} THEN "embedding"
    ELSE IF /\ HasDirect(model_dir, ConfigJson) /\ model_dir.config.ok
            /\ model_dir.config.architectures = "llm" THEN "llm"
    ELSE IF /\ HasDirect(model_dir, ConfigJson) /\ model_dir.config.ok
            /\ model_dir.config.model_type \in {"embedding", "both"} THEN "embedding"
    ELSE IF /\ HasDirect(model_dir, ConfigJson) /\ model_dir.config.ok
            /\ model_dir.config.model_type = "llm" THEN "llm"
    ELSE IF \E f \in model_dir.files :
                /\ ~f.nested
                /\ (StartsWith(f.name, <<"tokenizer">>) \/ Contains(f.name, <<"vocab">>))
         THEN "llm"
    ELSE IF \E k \in EmbeddingKeywords : Contains(model_dir.name, k) THEN "embedding"
    ELSE IF \E k \in LlmKeywords : Contains(model_dir.name, k) THEN "llm"
    ELSE "unknown"

\* the record of an artifact in a scan result; both analyses write
\* "is_usable": True and nothing writes the key again
Info(name, type, format, size_mb, files) ==
    [name |-> name, type |-> type, format |-> format, size_mb |-> size_mb,
     files |-> files, is_usable |-> TRUE]

\* what the analysis of an entry gives when it raised and returned None
NoInfo == Info(<<>>, "", "none", 0, {})

\* _analyze_gguf_file: stat raises when the file has vanished
_analyze_gguf_file(gguf_path) ==
    IF gguf_path.fault = "vanishing" THEN NoInfo
    ELSE Info(gguf_path.name,
              IF \E k \in GgufEmbeddingKeywords : Contains(gguf_path.name, k)
              THEN "embedding" ELSE "llm",
              "gguf", gguf_path.size_mb, {File(gguf_path.name, FALSE)})

\* analyze_model_directory: any exception of the type detection, the size
\* computation or the file listing ends in None; parse_config_file catches
\* its own
analyze_model_directory(model_dir) ==
    IF model_dir.fault # "none" THEN NoInfo
    ELSE Info(model_dir.name, _detect_model_type(model_dir), "hf",
              model_dir.size_mb, model_dir.files)

\* _is_usable_model; item is the entry model_info['path'] names
_is_usable_model(model_info, item) ==
    IF model_info.format = "gguf" THEN item.fault # "vanishing"
    ELSE IF model_info.size_mb < MinUsableMb THEN FALSE
    ELSE IF model_info.files = {} THEN FALSE
    ELSE /\ \E f \in model_info.files :
                \E ext \in {<<".bin">>, <<".safetensors">>, <<".pt">>} :
                    Contains(f.name, ext)
         /\ \E f \in model_info.files : Contains(f.name, ConfigJson)

\* the sort key of scan_models_cache: embedding first, then the name
SortGroup(x) == IF x.type = "embedding" THEN 0 ELSE 1

KeyLess(x, y) ==
    \/ SortGroup(x) < SortGroup(y)
    \/ (SortGroup(x) = SortGroup(y) /\ StrLess(x.name, y.name))

\* x put into a sorted list, after the elements that are not greater
RECURSIVE InsertSorted(_, _)
InsertSorted(x, sorted) ==
    IF sorted = <<>> THEN <<x>>
    ELSE IF KeyLess(x, Head(sorted)) THEN <<x>> \o sorted
    ELSE <<Head(sorted)>> \o InsertSorted(x, Tail(sorted))

\* models_info left in the order of the listing
KeepListingOrder(models_info) == models_info

\* models_info.sort(key=...): a stable sort
RECURSIVE SortModels(_)
SortModels(models_info) ==
    IF models_info = <<>> THEN <<>>
    ELSE InsertSorted(models_info[Len(models_info)],
                      SortModels(SubSeq(models_info, 1, Len(models_info) - 1)))

\* what the body of the loop of scan_models_cache does with one item:
\* whether it raised, and the models_info it leaves
ScanItem(item, models_info) ==
    IF ~item.is_dir /\ IsGguf(item)
    THEN LET model_info == _analyze_gguf_file(item)
         IN  IF model_info # NoInfo /\ _is_usable_model(model_info, item)
             THEN [raised |-> FALSE, models |-> Append(models_info, model_info)]
             ELSE [raised |-> FALSE, models |-> models_info]
    ELSE IF ~item.is_dir THEN [raised |-> FALSE, models |-> models_info]
    ELSE LET valid == _is_valid_model_directory(item)
             model_info == analyze_model_directory(item)
         IN  IF valid.raised THEN [raised |-> TRUE, models |-> models_info]
             ELSE IF ~valid.value THEN [raised |-> FALSE, models |-> models_info]
             ELSE IF model_info # NoInfo /\ _is_usable_model(model_info, item)
             THEN [raised |-> FALSE, models |-> Append(models_info, model_info)]
             ELSE [raised |-> FALSE, models |-> models_info]

\* the loop over iterdir(), left at the first exception
RECURSIVE ScanLoop(_, _)
ScanLoop(listing, models_info) ==
    IF listing = <<>> THEN [raised |-> FALSE, models |-> models_info]
    ELSE LET r == ScanItem(Head(listing), models_info)
         IN  IF r.raised THEN r ELSE ScanLoop(Tail(listing), r.models)

\* the two shapes of a scan result: with "error" there is no total_models
ScanError == [error |-> TRUE, has_total |-> FALSE, total_models |-> 0,
              models |-> <<>>]
ScanResult(models_info) ==
    [error |-> FALSE, has_total |-> TRUE, total_models |-> Len(models_info),
     models |-> models_info]

\* scan_models_cache over a cache root that iterdir() lists as listing
scan_models_cache(root, listing) ==
    IF ~root THEN ScanError
    ELSE LET r == ScanLoop(listing, <<>>)
         IN  IF r.raised THEN ScanError
             ELSE ScanResult(SortModels(r.models))

\* the listings of at most n distinct entries, in every order
RECURSIVE Listings(_)
Listings(n) ==
    IF n = 0 THEN {<<>>}
    ELSE Listings(n - 1) \cup
         {Append(l, e) : l \in {m \in Listings(n - 1) : Len(m) = n - 1},
                         e \in ScanUniverse}

Distinct(l) == \A i \in 1..Len(l) : \A j \in 1..Len(l) : l[i] = l[j] => i = j

ScanInit ==
    /\ loaded_models = EmptyMap
    /\ cache = {}
    /\ root_exists \in BOOLEAN
    /\ cuda = FALSE
    /\ pc = "running"
    /\ last = Idle
    /\ threads = NoThreads
    /\ \E listing \in {l \in Listings(MaxEntries) : Distinct(l)} :
           /\ root_exists \/ listing = <<>>
           /\ scan = [listing |-> listing, done |-> FALSE, result |-> ScanError]
    /\ plan = NoPlan
    /\ batch = NoBatch

\* GET /models/discovery: scan_models_cache
ScanModelsCache ==
    /\ ~scan.done
    /\ scan' = [scan EXCEPT !.done = TRUE,
                            !.result = scan_models_cache(root_exists, scan.listing)]
    /\ UNCHANGED <<loaded_models, cache, root_exists, cuda, pc, last, threads, plan, batch>>

\* the names asked of POST /models/load: one of a usable directory, one of
\* a directory the scan does not list, one of no entry
RequestNames == {GoodEmbedding.name, NestedConfig.name, NameAB}

\* load_model_to_memory: the scan, 404 for a name the scan does not list;
\* for a listed name the call model_manager.load_embedding_model(...), a
\* method ModelManager does not have: the AttributeError becomes a 500
load_model_to_memory(model_name, root, listing, models) ==
    LET cache_info == scan_models_cache(root, listing)
        model_exists == \E i \in 1..Len(cache_info.models) :
                            cache_info.models[i].name = model_name
    IN  IF ~model_exists
        THEN [status |-> "404", models |-> models, cache_info |-> cache_info]
        ELSE [status |-> "500", models |-> models, cache_info |-> cache_info]

\* POST /models/load
LoadModelToMemory(n) ==
    \E r \in {load_model_to_memory(n, root_exists, scan.listing, loaded_models)} :
    /\ ~scan.done
    /\ scan' = [scan EXCEPT !.done = TRUE, !.result = r.cache_info]
    /\ loaded_models' = r.models
    /\ last' = [Idle EXCEPT !.op = "load_route", !.name = n, !.status = r.status]
    /\ UNCHANGED <<cache, root_exists, cuda, pc, threads, plan, batch>>

ScanNext ==
    \/ ScanModelsCache
    \/ \E n \in RequestNames : LoadModelToMemory(n)

ScanSpec == ScanInit /\ [][ScanNext]_vars

-----------------------------------------------------------------------------
(* Properties of the scan *)

Listed == {scan.listing[i] : i \in 1..Len(scan.listing)}

ResultNames == {scan.result.models[i].name : i \in 1..Len(scan.result.models)}

HasWeights(e) ==
    \E f \in e.files :
        Contains(f.name, <<".bin">>) \/ Contains(f.name, <<".safetensors">>)

\* an artifact that is well formed, readable and usable: a .gguf file, or a
\* directory named models--... with config.json directly inside, at least
\* MinUsableMb large and holding a weight file
WellFormedUsable(e) ==
    /\ e.fault = "none"
    /\ \/ ~e.is_dir /\ EndsWith(e.name, <<".gguf">>)
       \/ /\ e.is_dir
          /\ StartsWith(e.name, ModelsPrefix)
          /\ File(ConfigJson, FALSE) \in e.files
          /\ e.size_mb >= MinUsableMb
          /\ HasWeights(e)

\* a directory named models--... that cannot be searched
RaisesInValidityCheck(e) ==
    e.is_dir /\ StartsWith(e.name, ModelsPrefix) /\ e.fault = "unsearchable"

\* C12: a scan reports an error only when the cache root is missing or the
\* validity check of an entry raised, never because of a directory without
\* config.json; a scan without error lists exactly the well-formed usable
\* artifacts, once each, total_models is their number, and no directory that
\* lacks config.json directly inside is listed.
C12_MalformedOmitted ==
    scan.done =>
        /\ scan.result.error <=>
               (~root_exists \/ \E e \in Listed : RaisesInValidityCheck(e))
        /\ ~scan.result.error =>
               /\ ResultNames = {e.name : e \in {x \in Listed : WellFormedUsable(x)}}
               /\ Len(scan.result.models) = Cardinality(ResultNames)
               /\ scan.result.has_total
               /\ scan.result.total_models = Len(scan.result.models)
               /\ \A e \in Listed :
                      (e.is_dir /\ File(ConfigJson, FALSE) \notin e.files)
                          => e.name \notin ResultNames

C12_Witness ==
    /\ scan.done /\ ~scan.result.error
    /\ NestedConfig \in Listed
    /\ scan.result.total_models = 2
    /\ Len(scan.listing) = 3

\* name = models--<organization>--<model-name>, both parts non-empty
CanonicalDirName(name) ==
    /\ StartsWith(name, ModelsPrefix)
    /\ \E k \in 5..(Len(name) - 2) : SubSeq(name, k, k + 1) = <<"-", "-">>

ListedDirs == {e \in Listed : e.is_dir}

\* C13 as stated: a directory is listed only if its name has the form
\* models--<organization>--<model-name> and config.json exists directly
\* inside it.
C13_CanonicalNameAndConfig ==
    scan.done =>
        \A e \in ListedDirs :
            e.name \in ResultNames
                => (CanonicalDirName(e.name) /\ File(ConfigJson, FALSE) \in e.files)

\* C13 amended: a directory is listed only if its name starts with models--
\* and config.json exists directly inside it.
C13_PrefixAndConfig ==
    scan.done =>
        \A e \in ListedDirs :
            e.name \in ResultNames
                => (StartsWith(e.name, ModelsPrefix) /\ File(ConfigJson, FALSE) \in e.files)

C13_Witness ==
    /\ scan.done
    /\ PrefixOnly \in Listed /\ PrefixOnly.name \in ResultNames
    /\ NoPrefix \in Listed /\ NoPrefix.name \notin ResultNames
    /\ NestedConfig \in Listed /\ NestedConfig.name \notin ResultNames

\* the listing with the entries at k and k+1 exchanged
Swap(l, k) ==
    [i \in 1..Len(l) |-> IF i = k THEN l[k + 1] ELSE IF i = k + 1 THEN l[k] ELSE l[i]]

\* C14: in a scan result every embedding artifact precedes every artifact of
\* another kind, within each of the two groups the names ascend, and
\* exchanging two neighbours of the listing gives the same result.
C14_EmbeddingFirstThenName ==
    scan.done =>
        /\ \A i \in 1..Len(scan.result.models) : \A j \in 1..Len(scan.result.models) :
               i < j =>
                   LET x == scan.result.models[i]
                       y == scan.result.models[j]
                   IN  /\ (y.type = "embedding") => (x.type = "embedding")
                       /\ ((x.type = "embedding") <=> (y.type = "embedding"))
                              => StrLess(x.name, y.name)
        /\ \A k \in 1..(Len(scan.listing) - 1) :
               scan_models_cache(root_exists, Swap(scan.listing, k)) = scan.result

C14_Witness ==
    /\ scan.done /\ Len(scan.result.models) = 3
    /\ scan.result.models[1].type = "embedding"
    /\ scan.result.models[2].type = "embedding"
    /\ scan.result.models[3].type # "embedding"
    /\ StrLess(scan.result.models[3].name, scan.result.models[1].name)
    /\ scan.listing[1].name = scan.result.models[3].name
    /\ scan.listing[2].name = scan.result.models[2].name

\* the entries whose handling meets a filesystem or parse error
FailsInAnalysis(e) ==
    e.fault # "none" \/ (e.is_dir /\ ~e.config.ok)

\* C15: when the handling of an entry meets a filesystem or parse error, the
\* scan does not fail, the entry is not listed and every other well-formed
\* usable artifact is.
C15_FailingEntryDroppedAlone ==
    (scan.done /\ root_exists /\ \E e \in Listed : FailsInAnalysis(e)) =>
        /\ ~scan.result.error
        /\ \A e \in Listed :
               /\ FailsInAnalysis(e) => e.name \notin ResultNames
               /\ (~FailsInAnalysis(e) /\ WellFormedUsable(e)) => e.name \in ResultNames

-----------------------------------------------------------------------------
(* Properties of delete_model *)

\* C16: delete_model of a name that _get_local_model_path does not resolve
\* returns False and leaves the cache as it is; delete_model of a name that
\* resolves returns True and removes the resolved entry of the cache and
\* nothing else.
C16_DeleteExactlyResolved ==
    [][ last'.op = "delete_model" =>
          LET local_path == Discovery_get_local_model_path(last'.name, fs_now)
          IN  IF local_path = NoPath
              THEN /\ ~last'.ret
                   /\ cache' = cache /\ root_exists' = root_exists
              ELSE /\ last'.ret
                   /\ root_exists' = root_exists
                   /\ \E e \in cache :
                          /\ Locate(local_path, fs_now).rel = <<e>>
                          /\ cache' = cache \ {e} ]_vars

-----------------------------------------------------------------------------
(* QuantizationService.calculate_optimal_quantization *)

\* Sizes and memory are in hundredths of a GB (get_gpu_memory_info rounds to
\* two places).  A requirement is model_size_gb * reduction * 1.2; it is kept
\* exact, in units of 1/4000 GB: size * (8 * reduction) * 6.  For the sizes
\* used here the comparison of the floating-point product with the free
\* memory gives the same answer as the exact one.

\* largest model size and largest free memory, in whole GB, given to the planner
MaxSizeGb == 16
MaxFreeGb == 8

\* the sizes of get_model_size_estimation
EstimatedSizes == {1450, 2800, 1400, 300, 1600, 14000, 4500, 9, 42, 210, 220,
                   2600, 200}

ModelSizes == EstimatedSizes \cup {100 * g : g \in 0..MaxSizeGb}

\* free memory around the requirements of a 14 GB model, and of large devices
FreeSizes == {209, 210, 211, 2400, 8000} \cup {100 * g : g \in 0..MaxFreeGb}

Devices == {"cuda:0", "cuda:1"}

\* quantization_levels, in the order of the dict; eighths is 8 * reduction
Level(name, bits, eighths, quality) ==
    [level |-> name, bits |-> bits, eighths |-> eighths, quality |-> quality]

quantization_levels ==
    << Level("fp32", 32, 8, "original"),
       Level("fp16", 16, 4, "excellent"),
       Level("bf16", 16, 4, "excellent"),
       Level("8bit", 8, 2, "very good"),
       Level("4bit", 4, 1, "good"),
       Level("q4", 4, 1, "good") >>

\* a requirement that grows as the reduction gets stronger
RequiredVramInverted(model_size, eighths) == model_size * (9 - eighths) * 6

\* required_vram = model_size_gb * reduction * safety_margin, in 1/4000 GB
RequiredVram(model_size, eighths) == model_size * eighths * 6

\* a memory value of get_gpu_memory_info in 1/4000 GB
InRequirementUnits(gb_hundredths) == gb_hundredths * 40

NoWarning == [required |-> 0, available |-> 0, text |-> ""]

\* one element of recommendations; forced and warning are the keys that only
\* the fallback adds
Recommendation(l, model_size, free_vram) ==
    LET required_vram == RequiredVram(model_size, l.eighths)
        can_fit == required_vram <= InRequirementUnits(free_vram)
    IN  [level |-> l.level, bits |-> l.bits, required_vram |-> required_vram,
         can_fit |-> can_fit, quality |-> l.quality,
         recommended |-> (can_fit /\ l.bits <= 8),
         forced |-> FALSE, warning |-> NoWarning]

NoRecommendation ==
    [level |-> "", bits |-> 0, required_vram |-> 0, can_fit |-> FALSE,
     quality |-> "", recommended |-> FALSE, forced |-> FALSE, warning |-> NoWarning]

\* the key of recommendations.sort: (not can_fit, bits)
PriorityLess(x, y) ==
    \/ x.can_fit /\ ~y.can_fit
    \/ (x.can_fit = y.can_fit /\ x.bits < y.bits)

RECURSIVE InsertByPriority(_, _)
InsertByPriority(x, sorted) ==
    IF sorted = <<>> THEN <<x>>
    ELSE IF PriorityLess(x, Head(sorted)) THEN <<x>> \o sorted
    ELSE <<Head(sorted)>> \o InsertByPriority(x, Tail(sorted))

\* recommendations left in the order of quantization_levels
KeepLevelOrder(recommendations) == recommendations

\* recommendations.sort(key=...): a stable sort
RECURSIVE SortByPriority(_)
SortByPriority(recommendations) ==
    IF recommendations = <<>> THEN <<>>
    ELSE InsertByPriority(recommendations[Len(recommendations)],
             SortByPriority(SubSeq(recommendations, 1, Len(recommendations) - 1)))

CpuKeys == {"recommended", "reason", "can_load", "estimated_vram_usage_gb"}
GpuKeys == {"model_size_gb", "target_gpu", "free_vram_gb", "total_vram_gb",
            "recommendations", "best_recommendation", "can_load"}

\* the answer of the two early returns
CpuAnswer(reason, model_size) ==
    [keys |-> CpuKeys, recommended |-> "cpu", reason |-> reason,
     can_load |-> FALSE, estimated_vram_usage_gb |-> model_size,
     free_vram_gb |-> 0, recommendations |-> <<>>,
     best_recommendation |-> NoRecommendation]

\* the levels evaluated against the free memory of the target device, the
\* sort, the choice of best_recommendation and its fallback
PlanForGpu(model_size, target_gpu) ==
    LET free_vram == target_gpu.free_gb
        evaluated == [i \in 1..Len(quantization_levels) |->
                         Recommendation(quantization_levels[i], model_size, free_vram)]
        sorted == SortByPriority(evaluated)
        fitting == {i \in 1..Len(sorted) : sorted[i].can_fit}
        last_one == sorted[Len(sorted)]
        forced_one == [last_one EXCEPT
                          !.forced = TRUE,
                          !.warning = [required |-> last_one.required_vram,
                                       available |-> free_vram,
                                       text |-> "does not fit"]]
        best == IF fitting # {}
                THEN sorted[CHOOSE i \in fitting : \A j \in fitting : i <= j]
                ELSE forced_one
    IN  [keys |-> GpuKeys, recommended |-> "", reason |-> "",
         can_load |-> (IF best.forced THEN FALSE ELSE best.can_fit),
         estimated_vram_usage_gb |-> 0,
         free_vram_gb |-> free_vram,
         recommendations |-> (IF fitting # {} THEN sorted
                              ELSE [sorted EXCEPT ![Len(sorted)] = forced_one]),
         best_recommendation |-> best]

\* a missing device taken as a device without free memory
plan_with_missing_device_as_full(model_size_gb, target_device, gpu_info) ==
    IF gpu_info.available /\ target_device \in DOMAIN gpu_info.gpus
    THEN PlanForGpu(model_size_gb, gpu_info.gpus[target_device])
    ELSE PlanForGpu(model_size_gb, [free_gb |-> 0, total_gb |-> 0])

\* calculate_optimal_quantization for what get_gpu_memory_info returned
calculate_optimal_quantization(model_size_gb, target_device, gpu_info) ==
    IF ~gpu_info.available
    THEN CpuAnswer("GPU not available", model_size_gb)
    ELSE IF target_device \notin DOMAIN gpu_info.gpus
    THEN CpuAnswer("Target GPU not found", model_size_gb)
    ELSE PlanForGpu(model_size_gb, gpu_info.gpus[target_device])

Gpu(free_gb, allocated_gb) == [free_gb |-> free_gb, total_gb |-> free_gb + allocated_gb]

\* what get_gpu_memory_info can return: CUDA not available (or the probe
\* raised), no device, one device, two devices
GpuInfos ==
    {[available |-> FALSE, gpus |-> [d \in {} |-> Gpu(0, 0)]],
     [available |-> TRUE, gpus |-> [d \in {} |-> Gpu(0, 0)]]}
    \cup {[available |-> TRUE, gpus |-> [d \in {"cuda:0"} |-> Gpu(f, 100)]] :
             f \in FreeSizes}
    \cup {[available |-> TRUE,
           gpus |-> [d \in Devices |-> IF d = "cuda:0" THEN Gpu(f, 100) ELSE Gpu(g, 100)]] :
             f \in FreeSizes, g \in {0, 8000}}

\* the default of the parameter target_device
DefaultDevice == "cuda:0"

NoSuggestions == [raised |-> FALSE, lines |-> <<>>]

\* the keys _generate_human_readable_suggestions reads from the analysis
ReadKeys == {"model_size_gb", "free_vram_gb", "best_recommendation", "can_load",
             "recommendations"}

\* _generate_human_readable_suggestions: a key that the analysis does not
\* have raises KeyError; otherwise the lines about the size, the free
\* memory, the best recommendation and at most two other fitting levels
_generate_human_readable_suggestions(analysis) ==
    IF ~(ReadKeys \subseteq analysis.keys)
    THEN [raised |-> TRUE, lines |-> <<>>]
    ELSE LET best_rec == analysis.best_recommendation
             alt_options == SelectSeq(analysis.recommendations,
                                      LAMBDA rec : rec.can_fit /\ rec # best_rec)
             shown == SubSeq(alt_options, 1,
                             IF Len(alt_options) < 2 THEN Len(alt_options) ELSE 2)
         IN  [raised |-> FALSE,
              lines |-> <<"size", "free">>
                        \o (IF analysis.can_load
                            THEN <<"recommended", best_rec.level, "quality", "takes">>
                            ELSE <<"does not fit", "try", best_rec.level, "needs",
                                   "performance">>)
                        \o (IF Len(alt_options) > 0
                            THEN <<"alternatives">> \o [i \in 1..Len(shown) |-> shown[i].level]
                            ELSE <<>>)]

\* generate_quantization_suggestions for the size that
\* get_model_size_estimation gave; nothing in it catches an exception
generate_quantization_suggestions(model_size, gpu_info) ==
    LET quantization_analysis ==
            calculate_optimal_quantization(model_size, DefaultDevice, gpu_info)
        suggestions == _generate_human_readable_suggestions(quantization_analysis)
    IN  [raised |-> suggestions.raised,
         quantization_analysis |-> quantization_analysis,
         suggestions |-> suggestions.lines]

PlanInit ==
    /\ loaded_models = EmptyMap
    /\ cache = {}
    /\ root_exists = TRUE
    /\ cuda = FALSE
    /\ pc = "running"
    /\ last = Idle
    /\ threads = NoThreads
    /\ scan = NoScan
    /\ batch = NoBatch
    /\ \E model_size_gb \in ModelSizes, target_device \in Devices, gpu_info \in GpuInfos :
           plan = [model_size_gb |-> model_size_gb, target_device |-> target_device,
                   gpu_info |-> gpu_info, done |-> FALSE, op |-> "none",
                   result |-> CpuAnswer("", 0), suggestions |-> NoSuggestions]

CalculateOptimalQuantization ==
    /\ ~plan.done
    /\ plan' = [plan EXCEPT
                   !.done = TRUE,
                   !.op = "calculate",
                   !.result = calculate_optimal_quantization(
                                  plan.model_size_gb, plan.target_device, plan.gpu_info)]
    /\ UNCHANGED <<loaded_models, cache, root_exists, cuda, pc, last, threads, scan, batch>>

\* generate_quantization_suggestions(model_name): the size is one that
\* get_model_size_estimation gives, the target device is the default one
GenerateQuantizationSuggestions ==
    \E r \in {generate_quantization_suggestions(plan.model_size_gb, plan.gpu_info)} :
    /\ ~plan.done
    /\ plan.model_size_gb \in EstimatedSizes
    /\ plan.target_device = DefaultDevice
    /\ plan' = [plan EXCEPT
                   !.done = TRUE,
                   !.op = "suggest",
                   !.result = r.quantization_analysis,
                   !.suggestions = [raised |-> r.raised, lines |-> r.suggestions]]
    /\ UNCHANGED <<loaded_models, cache, root_exists, cuda, pc, last, threads, scan, batch>>

PlanNext ==
    \/ CalculateOptimalQuantization
    \/ GenerateQuantizationSuggestions

PlanSpec == PlanInit /\ [][PlanNext]_vars

-----------------------------------------------------------------------------
(* Properties of the planner *)

Recommendations ==
    {plan.result.recommendations[i] : i \in 1..Len(plan.result.recommendations)}

\* the request reached a probed device of an available accelerator
TargetProbed ==
    plan.gpu_info.available /\ plan.target_device \in DOMAIN plan.gpu_info.gpus

\* C17: in the recommendations of one answer, a level of at most the
\* bit-width of another needs at most as much memory, and fits whenever the
\* other fits; every level is in the answer.
C17_FitMonotoneInBits ==
    (plan.done /\ TargetProbed) =>
        /\ {r.level : r \in Recommendations}
               = {quantization_levels[i].level : i \in 1..Len(quantization_levels)}
        /\ \A x \in Recommendations : \A y \in Recommendations :
               y.bits <= x.bits =>
                   /\ y.required_vram <= x.required_vram
                   /\ x.can_fit => y.can_fit

C17_Witness ==
    /\ plan.done /\ TargetProbed
    /\ \E x \in Recommendations : x.bits = 8 /\ x.can_fit
    /\ \E x \in Recommendations : x.bits = 16 /\ ~x.can_fit

\* C18: when no level fits, best_recommendation has the smallest bit-width
\* and the smallest requirement of all levels, is forced, carries a warning
\* that names its requirement and the free memory, needs more than the free
\* memory, and can_load is False.
C18_FallbackMostAggressive ==
    (plan.done /\ TargetProbed /\ \A r \in Recommendations : ~r.can_fit) =>
        LET best == plan.result.best_recommendation
        IN  /\ \A r \in Recommendations :
                   best.bits <= r.bits /\ best.required_vram <= r.required_vram
            /\ best.forced
            /\ best.warning.text # ""
            /\ best.warning.required = best.required_vram
            /\ best.warning.available = plan.result.free_vram_gb
            /\ best.required_vram > InRequirementUnits(plan.result.free_vram_gb)
            /\ ~plan.result.can_load

\* C19: when a level fits, best_recommendation fits, no fitting level has a
\* smaller bit-width (so it has at most 8 bits when a level of at most 8
\* bits fits), it is not forced and can_load is True; for 14 GB and 8 GB free
\* it is the level "4bit".
C19_BestIsLowestFitting ==
    (plan.done /\ TargetProbed /\ \E r \in Recommendations : r.can_fit) =>
        LET best == plan.result.best_recommendation
        IN  /\ best \in Recommendations
            /\ best.can_fit
            /\ \A r \in Recommendations : r.can_fit => best.bits <= r.bits
            /\ (\E r \in Recommendations : r.can_fit /\ r.bits <= 8) => best.bits <= 8
            /\ ~best.forced
            /\ plan.result.can_load
            /\ (plan.model_size_gb = 1400 /\ plan.result.free_vram_gb = 800)
                   => best.level = "4bit"

C19_Witness ==
    /\ plan.done /\ TargetProbed
    /\ plan.model_size_gb = 1400 /\ plan.result.free_vram_gb = 800
    /\ plan.result.best_recommendation.level = "4bit"
    /\ plan.result.best_recommendation.can_fit
    /\ plan.result.can_load

\* C20: without an accelerator, or for a target device that was not probed,
\* the answer recommends the CPU with can_load False and holds no evaluated
\* level and no free-memory value.
C20_NoDeviceGivesCpu ==
    (plan.done /\ ~TargetProbed) =>
        /\ plan.result.recommended = "cpu"
        /\ ~plan.result.can_load
        /\ plan.result.recommendations = <<>>
        /\ plan.result.best_recommendation = NoRecommendation
        /\ plan.result.keys \cap {"recommendations", "best_recommendation", "free_vram_gb"} = {}

C20_Witness ==
    /\ plan.done
    /\ plan.gpu_info.available
    /\ plan.gpu_info.gpus # <<>>
    /\ plan.target_device \notin DOMAIN plan.gpu_info.gpus
    /\ plan.result.recommended = "cpu" /\ ~plan.result.can_load

\* C21: generate_quantization_suggestions returns for every estimated size
\* and every state of the accelerator; it does not raise.
C21_SuggestionsNeverRaise ==
    (plan.done /\ plan.op = "suggest") => ~plan.suggestions.raised

-----------------------------------------------------------------------------
(* Properties of the routes *)

\* C22: POST /models/load for a name that the scan does not list answers 404
\* and leaves the resident map as it is; for a name that the scan lists it
\* answers with success and the model is resident.
C22_LoadRouteLoadsListed ==
    [][ last'.op = "load_route" =>
          IF last'.name \notin {scan'.result.models[i].name :
                                   i \in 1..Len(scan'.result.models)}
          THEN last'.status = "404" /\ loaded_models' = loaded_models
          ELSE /\ last'.status = "success"
               /\ is_model_loaded(last'.name, loaded_models') ]_vars

-----------------------------------------------------------------------------
(* Deletion from the cache *)

NameB == <<"b">>
NameModelsB == <<"models", "-", "-", "b">>
NameGguf == <<"a", ".gguf">>

\* entries of the cache root: a directory under its bare name, the same
\* name in the models-- form, a .gguf file, the name of that file in the
\* models-- form, and two org/model directories
DeleteUniverse ==
    {NameB, NameModelsB, NameGguf, ModelsPrefix \o NameGguf, NameModelsAB,
     <<"models", "-", "-", "a", "-", "-", "models", "-", "-", "b">>}

DeleteNames == {NameB, NameModelsB, NameGguf, NameAB, NameAModelsB, DotDot}

CacheInit ==
    /\ loaded_models = EmptyMap
    /\ cache \in SUBSET DeleteUniverse
    /\ root_exists = TRUE
    /\ cuda = FALSE
    /\ pc = "running"
    /\ last = Idle
    /\ threads = NoThreads
    /\ scan = NoScan
    /\ plan = NoPlan
    /\ batch = NoBatch

\* delete_model_from_cache: the deletion is not written yet, the route
\* answers success whatever the name is
delete_model_from_cache(model_name, fs) == [fs |-> fs, status |-> "success"]

\* DELETE /models/cache/{model_name}
DeleteModelFromCache(n) ==
    \E r \in {delete_model_from_cache(n, FS(root_exists, cache))} :
    /\ pc = "running"
    /\ cache' = r.fs.entries
    /\ root_exists' = r.fs.root
    /\ last' = [Idle EXCEPT !.op = "delete_route", !.name = n, !.status = r.status]
    /\ UNCHANGED <<loaded_models, cuda, pc, threads, scan, plan, batch>>

CacheNext ==
    \/ \E n \in DeleteNames : DeleteModel(n)
    \/ \E n \in DeleteNames : DeleteModelFromCache(n)
    \/ \E n \in DeleteNames : LoadModel(n, "embedding", FALSE)
    \/ \E n \in DeleteNames : UnloadRoute(n, FALSE)
    \/ \E n \in DeleteNames : GetModel(n)

CacheSpec == CacheInit /\ [][CacheNext]_vars

\* C23: DELETE /models/cache/{model_name} for a name that resolves removes
\* the resolved entry from the cache (a following scan cannot list it); for
\* a name that does not resolve it answers 404 and leaves the cache as it is.
C23_DeleteRouteRemoves ==
    [][ last'.op = "delete_route" =>
          LET local_path == Discovery_get_local_model_path(last'.name, fs_now)
          IN  IF local_path = NoPath
              THEN /\ last'.status = "404"
                   /\ cache' = cache /\ root_exists' = root_exists
              ELSE ~Exists(local_path, FS(root_exists', cache')) ]_vars

C24_ResolversAgree ==
    [][ (last'.op = "load_model" /\ last'.fs_lookup) =>
          _get_local_model_path(last'.name, fs_now)
              = Discovery_get_local_model_path(last'.name, fs_now) ]_vars

-----------------------------------------------------------------------------
(* Properties of resident entries *)

\* the key of the resident map a name stands for
Key(n) == _normalize_model_name(n)

\* the name is resident and the directory its entry was loaded from is gone
ResidentWithoutArtifact(n) ==
    /\ Key(n) \in DOMAIN loaded_models
    /\ ~Exists(loaded_models[Key(n)].local_path, fs_now)

\* C27: load_model of a name that is already resident returns True whatever
\* type is asked for, the type of the entry, another supported type or an
\* unsupported one, and leaves the entry (type, model, device, local_path)
\* and the rest of the resident map as they were.
C27_ResidentLoadKeepsEntry ==
    [][ (last'.op = "load_model" /\ Key(last'.name) \in DOMAIN loaded_models) =>
          /\ last'.ret
          /\ Key(last'.name) \in DOMAIN loaded_models'
          /\ loaded_models'[Key(last'.name)] = loaded_models[Key(last'.name)]
          /\ loaded_models' = loaded_models ]_vars

\* a load of a resident name with a type other than the recorded one has
\* returned True
C27_Witness ==
    /\ last.op = "load_model" /\ last.ret /\ last.loader_arg = NoPath
    /\ last.kind = "other"
    /\ Key(last.name) \in DOMAIN loaded_models
    /\ loaded_models[Key(last.name)].type = "embedding"

\* C28: delete_model never changes the resident map; while a name is resident
\* and its artifact is gone from the cache, get_model returns the handle of
\* the entry, and load_model returns True without looking at the cache and
\* keeps the map; only unload_model takes the entry away.
C28_DeleteLeavesResidents ==
    [][ /\ last'.op = "delete_model" => loaded_models' = loaded_models
        /\ (last'.op = "get_model" /\ ResidentWithoutArtifact(last'.name)) =>
              /\ last'.model = loaded_models[Key(last'.name)].model
              /\ last'.model # NoModel
        /\ (last'.op = "load_model" /\ ResidentWithoutArtifact(last'.name)) =>
              /\ last'.ret
              /\ ~last'.fs_lookup
              /\ loaded_models' = loaded_models
        /\ (\E n \in DOMAIN loaded_models : n \notin DOMAIN loaded_models')
              => last'.op \in {"unload_route", "shutdown"} ]_vars

\* a resident name whose artifact has been deleted has been loaded again
C28_Witness ==
    /\ last.op = "load_model" /\ last.ret /\ ~last.fs_lookup
    /\ ResidentWithoutArtifact(last.name)
    /\ root_exists

-----------------------------------------------------------------------------
(* VolumeBatchProcessor *)

\* the longest list of texts handed to form_batches
MaxTexts == 3

\* calculate_max_volume: the answer without CUDA, and the least answer with it
CpuMaxVolume == 10000
MinMaxVolume == 1000

\* A text is a character repeated len times; Texts has the empty text, two
\* texts of the same length, and a text longer than every max_volume
Text(ch, len) == [ch |-> ch, len |-> len]

Texts == {Text("a", 0), Text("a", 600), Text("b", 600), Text("a", 1500),
          Text("a", 10001)}

\* What the batcher reads from its surroundings: whether CUDA is available,
\* the free bytes on device 0 (total_memory - memory_allocated) and the
\* calibrated memory_per_char, in tenths of a byte (0.3 is the fallback of
\* the calibration, 1.0 its upper limit)
FreeMemory == {0, 1000, 3000}
MemoryPerCharTenths == {3, 10}

Surroundings ==
    {[cuda |-> FALSE, free_memory |-> 0, memory_per_char |-> 3]}
    \cup [cuda : {TRUE}, free_memory : FreeMemory,
          memory_per_char : MemoryPerCharTenths]

Max(a, b) == IF a > b THEN a ELSE b

estimate_text_volume(text) == Max(1, text.len)

\* calculate_max_volume, after _ensure_calibrated has set memory_per_char
calculate_max_volume(env) ==
    IF ~env.cuda THEN CpuMaxVolume
    ELSE LET safe_memory == (env.free_memory * 7) \div 10
             max_volume == (safe_memory * 10) \div env.memory_per_char
         IN  Max(MinMaxVolume, max_volume)

\* the pending batch thrown away instead of being appended
FlushNever(batches, current_batch) == batches

\* "if current_batch: batches.append(current_batch)"
Flush(batches, current_batch) ==
    IF current_batch # <<>> THEN Append(batches, current_batch) ELSE batches

\* the loop of form_batches over the texts still to place
RECURSIVE FormLoop(_, _, _, _, _)
FormLoop(texts, max_volume, batches, current_batch, current_volume) ==
    IF texts = <<>> THEN Flush(batches, current_batch)
    ELSE LET text == Head(texts)
             text_volume == estimate_text_volume(text)
         IN  IF text_volume > max_volume
             THEN FormLoop(Tail(texts), max_volume,
                           Append(Flush(batches, current_batch), <<text>>),
                           <<>>, 0)
             ELSE IF current_volume + text_volume > max_volume /\ current_batch # <<>>
             THEN FormLoop(Tail(texts), max_volume,
                           Append(batches, current_batch), <<text>>, text_volume)
             ELSE FormLoop(Tail(texts), max_volume, batches,
                           Append(current_batch, text),
                           current_volume + text_volume)

form_batches(texts, env) ==
    IF texts = <<>> THEN <<>>
    ELSE FormLoop(texts, calculate_max_volume(env), <<>>, <<>>, 0)

\* the lists of at most n texts
TextLists(n) == UNION {[1..k -> Texts] : k \in 0..n}

BatchInit ==
    /\ loaded_models = EmptyMap
    /\ cache = {}
    /\ root_exists = TRUE
    /\ cuda = FALSE
    /\ pc = "running"
    /\ last = Idle
    /\ threads = NoThreads
    /\ scan = NoScan
    /\ plan = NoPlan
    /\ \E texts \in TextLists(MaxTexts), env \in Surroundings :
           batch = [texts |-> texts, env |-> env, done |-> FALSE,
                    batches |-> <<>>]

FormBatches ==
    /\ ~batch.done
    /\ batch' = [batch EXCEPT !.done = TRUE,
                              !.batches = form_batches(batch.texts, batch.env)]
    /\ UNCHANGED <<loaded_models, cache, root_exists, cuda, pc, last, threads,
                   scan, plan>>

BatchNext == FormBatches

BatchSpec == BatchInit /\ [][BatchNext]_vars

-----------------------------------------------------------------------------
(* Properties of the batcher *)

\* the batches joined end to end
RECURSIVE Concatenation(_)
Concatenation(batches) ==
    IF batches = <<>> THEN <<>>
    ELSE Head(batches) \o Concatenation(Tail(batches))

\* C30: form_batches partitions the list it is given: the batches joined end
\* to end are the list itself, the same texts in the same order and each
\* once; no batch is empty; the empty list gives no batch.
C30_BatchesPartitionTexts ==
    batch.done =>
        /\ Concatenation(batch.batches) = batch.texts
        /\ \A i \in 1..Len(batch.batches) : batch.batches[i] # <<>>
        /\ batch.texts = <<>> => batch.batches = <<>>

\* a list was split: two different texts of the same length share a batch,
\* and the text too long for any batch stands alone after it
C30_Witness ==
    /\ batch.done
    /\ batch.env.cuda
    /\ Len(batch.texts) = 3
    /\ Len(batch.batches) = 2
    /\ batch.batches[1] = <<Text("a", 600), Text("b", 600)>>
    /\ batch.batches[2] = <<Text("a", 10001)>>

-----------------------------------------------------------------------------
(* Scans of a cache root that holds one directory *)

\* the directory names: without a keyword, with an embedding keyword, with a
\* generative keyword, with both
DirectoryNames ==
    {PrefixOnly.name, GoodEmbedding.name, GoodLlm.name,
     <<"models", "-", "-", "qwen", "-", "-", "e5">>}

Families == {"none", "embedding", "llm", "both"}

Configs ==
    {Config(FALSE, "none", "none")}
    \cup {Config(TRUE, a, t) : a \in Families, t \in Families}

DescriptorFiles == SUBSET {File(StConfigJson, FALSE), File(ModulesJson, FALSE)}
TokenizerFiles == {{}, {File(TokenizerJson, FALSE)}, {File(VocabJson, FALSE)}}
WeightFiles == {{}, {File(Safetensors, FALSE)}, {File(SafetensorsIndex, FALSE)}}
DirectorySizes == {0, 90}

\* the directories named models--... with config.json directly inside
Directories ==
    {Entry(n, TRUE, {File(ConfigJson, FALSE)} \cup d \cup t \cup w, s, c, "none") :
        n \in DirectoryNames, d \in DescriptorFiles, t \in TokenizerFiles,
        w \in WeightFiles, s \in DirectorySizes, c \in Configs}

DirectoryInit ==
    /\ loaded_models = EmptyMap
    /\ cache = {}
    /\ root_exists = TRUE
    /\ cuda = FALSE
    /\ pc = "running"
    /\ last = Idle
    /\ threads = NoThreads
    /\ \E model_dir \in Directories :
           scan = [listing |-> <<model_dir>>, done |-> FALSE, result |-> ScanError]
    /\ plan = NoPlan
    /\ batch = NoBatch

DirectorySpec == DirectoryInit /\ [][ScanNext]_vars

-----------------------------------------------------------------------------
(* Properties of the scan of one directory *)

TheDirectory == scan.listing[1]

Tier1(d) == HasDirect(d, StConfigJson) \/ HasDirect(d, ModulesJson)

Tier2(d) ==
    d.config.ok /\ (d.config.architectures # "none" \/ d.config.model_type # "none")

Tier2Kind(d) ==
    IF d.config.architectures \in {"embedding", "both"} THEN "embedding"
    ELSE IF d.config.architectures = "llm" THEN "llm"
    ELSE IF d.config.model_type \in {"embedding", "both"} THEN "embedding"
    ELSE "llm"

Tier3(d) ==
    File(TokenizerJson, FALSE) \in d.files \/ File(VocabJson, FALSE) \in d.files

Tier4(d) == Contains(d.name, <<"e5">>) \/ Contains(d.name, <<"qwen">>)

Tier4Kind(d) == IF Contains(d.name, <<"e5">>) THEN "embedding" ELSE "llm"

KindByTiers(d) ==
    IF Tier1(d) THEN "embedding"
    ELSE IF Tier2(d) THEN Tier2Kind(d)
    ELSE IF Tier3(d) THEN "llm"
    ELSE IF Tier4(d) THEN Tier4Kind(d)
    ELSE "unknown"

\* a file whose name ends in a weight extension
IsWeightFile(f) ==
    \E ext \in {<<".bin">>, <<".safetensors">>, <<".pt">>} : EndsWith(f.name, ext)

\* C25: the kind of a scanned directory is decided by the first tier that
\* applies: a sentence-embedding descriptor file gives embedding; else the
\* lists of config.json, embedding before generative; else a tokenizer or
\* vocab file gives llm; else the keywords of the directory name, embedding
\* before generative; else unknown.  A directory with a weight file and room
\* for it is listed as one artifact, of kind unknown too.
C25_KindByFirstTier ==
    scan.done =>
        /\ \A i \in 1..Len(scan.result.models) :
              /\ scan.result.models[i].name = TheDirectory.name
              /\ scan.result.models[i].type = KindByTiers(TheDirectory)
        /\ ((\E f \in TheDirectory.files : IsWeightFile(f))
                /\ TheDirectory.size_mb >= MinUsableMb)
              => Len(scan.result.models) = 1

\* scenario A: config.json naming a generative architecture, a tokenizer,
\* config_sentence_transformers.json and a weight file in a directory named
\* after a generative model: one artifact, embedding
C25_Witness ==
    /\ scan.done
    /\ {File(ConfigJson, FALSE), File(StConfigJson, FALSE), File(Safetensors, FALSE),
        File(TokenizerJson, FALSE)} \subseteq TheDirectory.files
    /\ TheDirectory.config = Config(TRUE, "llm", "llm")
    /\ TheDirectory.name = GoodLlm.name
    /\ Len(scan.result.models) = 1
    /\ scan.result.models[1].type = "embedding"

\* C26: every directory a scan returns holds a weight file (.bin,
\* .safetensors or .pt) and a configuration file, is at least 1 MB large and
\* carries is_usable = true; an accepted directory that lacks one of the
\* three is not returned.
C26_ListedDirectoriesUsable ==
    scan.done =>
        /\ \A i \in 1..Len(scan.result.models) :
              LET x == scan.result.models[i] IN
              x.format = "hf" =>
                  /\ \E f \in x.files : IsWeightFile(f)
                  /\ \E f \in x.files : Contains(f.name, ConfigJson)
                  /\ x.size_mb >= MinUsableMb
                  /\ x.is_usable
        /\ (\/ ~\E f \in TheDirectory.files : IsWeightFile(f)
            \/ ~\E f \in TheDirectory.files : Contains(f.name, ConfigJson)
            \/ TheDirectory.size_mb < MinUsableMb)
              => scan.result.models = <<>>
====
